---- MODULE Spec2Model ----
(***************************************************************************)
(* A model of the ip-family crate (src/src/lib.rs): the sealed family      *)
(* hierarchy AnyIpFamily / IpFamilyAddr / IpFamilySocketAddr, its two      *)
(* instantiations over std::net, the runtime tag IpFamily and the family   *)
(* extraction IpFamilyExt::family.                                         *)
(*                                                                         *)
(* Representation.  TLC's integers are 32 bits wide, so an address is      *)
(* written as its numeric value (the trait's Raw type: u32 for v4, u128    *)
(* for v6) in base 2^16, most significant limb first: 2 limbs for v4,      *)
(* 8 limbs for v6 (the eight segments of an Ipv6Addr).  A byte sequence    *)
(* (the trait's Bytes type) is a tuple of BYTES numbers in 0..255.  A      *)
(* text is a tuple of one-character strings.                               *)
(***************************************************************************)
EXTENDS Integers, Sequences, FiniteSets

VARIABLES
    F,        \* the family marker the generic code is instantiated with
    sock,     \* the F::SocketAddr value the caller owns, or NoSock
    lastOp,   \* the last operation applied to sock
    lastIp,   \* history: the address given to new or to the latest set_ip
    lastPort, \* history: the port given to new or to the latest set_port
    got,      \* the result of the latest read-only operation
    peer,     \* the generic address last returned by an IpFamily accessor
    res,      \* the result of the latest address construction
    input     \* history: how res was constructed

vars == <<F, sock, lastOp, lastIp, lastPort, got, peer, res, input>>

----------------------------------------------------------------------------
(* Bounds of the model.                                                    *)

\* how many of PortList are used as ports
MaxPorts == 4
\* how many of IpList are used as socket-address IPs
MaxIps == 4
\* how many of ByteList are used as bytes of an address
MaxBytes == 5
\* how many of NumList are used as components of a dotted-quad text
MaxNums == 6

Prefix(list, n) == {list[i] : i \in 1..(IF n < Len(list) THEN n ELSE Len(list))}

PortList == <<0, 65535, 8080, 1, 80, 443>>
Ports == Prefix(PortList, MaxPorts)

ByteList == <<0, 1, 127, 255, 224, 10, 239, 240>>
Bytes == Prefix(ByteList, MaxBytes)

NumList == <<192, 168, 1, 0, 256, 255, 999, 1000, 10, 300>>
Nums == Prefix(NumList, MaxNums)

----------------------------------------------------------------------------
(* The type level: markers, tags and the associations of the hierarchy.    *)

\* enum IpFamily { V4, V6 }
V4 == "V4"
V6 == "V6"
IpFamily == {V4, V6}

IpFamilyV4 == "IpFamilyV4"
IpFamilyV6 == "IpFamilyV6"

\* every type of the program that could be given an impl
Types == {IpFamilyV4, IpFamilyV6, "Ipv4Addr", "Ipv6Addr",
          "SocketAddrV4", "SocketAddrV6", "IpAddr", "SocketAddr", "IpFamily"}

\* impl sealed::Sealed for ...
Sealed == {IpFamilyV4, "Ipv4Addr", "SocketAddrV4",
           IpFamilyV6, "Ipv6Addr", "SocketAddrV6"}

\* impl AnyIpFamily for ... (the supertrait Sealed is private to the crate)
AnyIpFamilyImpls == {IpFamilyV4, IpFamilyV6} \cap Sealed

\* impl IpFamilyAddr for ...
IpFamilyAddrImpls == {"Ipv4Addr", "Ipv6Addr"} \cap Sealed

\* impl IpFamilySocketAddr for ...
IpFamilySocketAddrImpls == {"SocketAddrV4", "SocketAddrV6"} \cap Sealed

Mut_AnyIpFamily_Addr(M) == "Ipv4Addr"

\* <M as AnyIpFamily>::Addr
AnyIpFamily_Addr(M) ==
    CASE M = IpFamilyV4 -> "Ipv4Addr"
      [] M = IpFamilyV6 -> "Ipv6Addr"

\* <M as AnyIpFamily>::SocketAddr
AnyIpFamily_SocketAddr(M) ==
    CASE M = IpFamilyV4 -> "SocketAddrV4"
      [] M = IpFamilyV6 -> "SocketAddrV6"

\* <M as AnyIpFamily>::FAMILY
AnyIpFamily_FAMILY(M) ==
    CASE M = IpFamilyV4 -> V4
      [] M = IpFamilyV6 -> V6

\* <T as IpFamilyAddr>::Family
IpFamilyAddr_Family(T) ==
    CASE T = "Ipv4Addr" -> IpFamilyV4
      [] T = "Ipv6Addr" -> IpFamilyV6

\* <T as IpFamilySocketAddr>::Family
IpFamilySocketAddr_Family(T) ==
    CASE T = "SocketAddrV4" -> IpFamilyV4
      [] T = "SocketAddrV6" -> IpFamilyV6

IPV4_ADDR_BYTES == 4
IPV6_ADDR_BYTES == 16

\* <M::Addr as IpFamilyAddr>::BYTES
BYTES(M) ==
    CASE M = IpFamilyV4 -> IPV4_ADDR_BYTES
      [] M = IpFamilyV6 -> IPV6_ADDR_BYTES

\* the number of 16-bit limbs of M::Addr's Raw integer (u32, u128)
Limbs(M) == BYTES(M) \div 2

----------------------------------------------------------------------------
(* IpFamilyAddr: the two address types.                                    *)

\* the values of M::Addr::Raw over the bytes of the model
RawValues(M) == [1..Limbs(M) -> {hi * 256 + lo : hi \in Bytes, lo \in Bytes}]

\* Ipv4Addr::LOCALHOST = 127.0.0.1, Ipv6Addr::LOCALHOST = ::1
IpFamilyAddr_LOCALHOST(M) ==
    CASE M = IpFamilyV4 -> <<127 * 256 + 0, 0 * 256 + 1>>
      [] M = IpFamilyV6 -> <<0, 0, 0, 0, 0, 0, 0, 1>>

\* Ipv4Addr::UNSPECIFIED = 0.0.0.0, Ipv6Addr::UNSPECIFIED = ::
IpFamilyAddr_UNSPECIFIED(M) ==
    CASE M = IpFamilyV4 -> <<0, 0>>
      [] M = IpFamilyV6 -> <<0, 0, 0, 0, 0, 0, 0, 0>>

\* From<Self::Raw>: the address whose numeric value is r
FromRaw(M, r) == [j \in 1..Limbs(M) |-> r[j] % 65536]

\* From<Self::Bytes>: the bytes in network order, most significant first
FromBytes(M, b) == [j \in 1..Limbs(M) |-> b[2 * j - 1] * 256 + b[2 * j]]

Mut_octets(M, a) ==
    [i \in 1..BYTES(M) |->
        IF i % 2 = 1 THEN a[(i + 1) \div 2] % 256 ELSE a[i \div 2] \div 256]

\* fn octets(&self) -> Self::Bytes
octets(M, a) ==
    [i \in 1..BYTES(M) |->
        IF i % 2 = 1 THEN a[(i + 1) \div 2] \div 256 ELSE a[i \div 2] % 256]

\* fn is_unspecified(&self) -> bool: the numeric value is 0
is_unspecified(M, a) == \A j \in 1..Limbs(M) : a[j] = 0

Mut_is_loopback(M, a) ==
    CASE M = IpFamilyV4 -> octets(M, a)[1] \in {0, 127}
      [] M = IpFamilyV6 -> \A j \in 1..Limbs(M) : a[j] = 0

\* fn is_loopback(&self) -> bool: 127.0.0.0/8 for v4, ::1 for v6
is_loopback(M, a) ==
    CASE M = IpFamilyV4 -> octets(M, a)[1] = 127
      [] M = IpFamilyV6 ->
            /\ \A j \in 1..(Limbs(M) - 1) : a[j] = 0
            /\ a[Limbs(M)] = 1

\* fn is_multicast(&self) -> bool: 224.0.0.0/4 for v4, ff00::/8 for v6
is_multicast(M, a) ==
    CASE M = IpFamilyV4 -> octets(M, a)[1] >= 224 /\ octets(M, a)[1] <= 239
      [] M = IpFamilyV6 -> a[1] \div 256 = 255

----------------------------------------------------------------------------
(* IpFamilySocketAddr: the two socket-address types.                       *)

\* SocketAddrV4::new(ip, port)
SocketAddrV4_new(a, p) == [ip |-> a, port |-> p]

Mut_SocketAddrV6_new(a, p) == [ip |-> a, port |-> p, flowinfo |-> 0, scope_id |-> p]

\* SocketAddrV6::new(ip, port, 0, 0)
SocketAddrV6_new(a, p) == [ip |-> a, port |-> p, flowinfo |-> 0, scope_id |-> 0]

\* fn ip(&self): *self.ip()
SocketAddrV4_ip(s) == s.ip
SocketAddrV6_ip(s) == s.ip

Mut_SocketAddrV4_set_ip(s, a) == [s EXCEPT !.ip = a, !.port = 0]

\* fn set_ip(&mut self, new_ip)
SocketAddrV4_set_ip(s, a) == [s EXCEPT !.ip = a]
SocketAddrV6_set_ip(s, a) == [s EXCEPT !.ip = a]

\* fn port(&self) -> u16
SocketAddrV4_port(s) == s.port
SocketAddrV6_port(s) == s.port

\* fn set_port(&mut self, new_port)
SocketAddrV4_set_port(s, p) == [s EXCEPT !.port = p]
SocketAddrV6_set_port(s, p) == [s EXCEPT !.port = p]

\* <M::SocketAddr as IpFamilySocketAddr>::new, resolved at compile time
new(M, a, p) ==
    CASE M = IpFamilyV4 -> SocketAddrV4_new(a, p)
      [] M = IpFamilyV6 -> SocketAddrV6_new(a, p)

ip(M, s) ==
    CASE M = IpFamilyV4 -> SocketAddrV4_ip(s)
      [] M = IpFamilyV6 -> SocketAddrV6_ip(s)

set_ip(M, s, a) ==
    CASE M = IpFamilyV4 -> SocketAddrV4_set_ip(s, a)
      [] M = IpFamilyV6 -> SocketAddrV6_set_ip(s, a)

port(M, s) ==
    CASE M = IpFamilyV4 -> SocketAddrV4_port(s)
      [] M = IpFamilyV6 -> SocketAddrV6_port(s)

set_port(M, s, p) ==
    CASE M = IpFamilyV4 -> SocketAddrV4_set_port(s, p)
      [] M = IpFamilyV6 -> SocketAddrV6_set_port(s, p)

----------------------------------------------------------------------------
(* The generic (family-erased) values and the runtime tag.                 *)

\* IpAddr: From<M::Addr>, the variant chosen by the static type
IpAddr_from(M, a) ==
    [type |-> "IpAddr",
     variant |-> IF AnyIpFamily_Addr(M) = "Ipv4Addr" THEN "V4" ELSE "V6",
     inner |-> a]

\* SocketAddr: From<M::SocketAddr>
SocketAddr_from(M, s) ==
    [type |-> "SocketAddr",
     variant |-> IF AnyIpFamily_SocketAddr(M) = "SocketAddrV4" THEN "V4" ELSE "V6",
     inner |-> s]

Mut_localhost(tag) == IpAddr_from(IpFamilyV4, IpFamilyAddr_LOCALHOST(IpFamilyV4))

\* IpFamily::localhost(&self) -> IpAddr
localhost(tag) ==
    CASE tag = V4 -> IpAddr_from(IpFamilyV4, IpFamilyAddr_LOCALHOST(IpFamilyV4))
      [] tag = V6 -> IpAddr_from(IpFamilyV6, IpFamilyAddr_LOCALHOST(IpFamilyV6))

Mut_unspecified(tag) ==
    CASE tag = V4 -> IpAddr_from(IpFamilyV4, IpFamilyAddr_LOCALHOST(IpFamilyV4))
      [] tag = V6 -> IpAddr_from(IpFamilyV6, IpFamilyAddr_UNSPECIFIED(IpFamilyV6))

\* IpFamily::unspecified(&self) -> IpAddr
unspecified(tag) ==
    CASE tag = V4 -> IpAddr_from(IpFamilyV4, IpFamilyAddr_UNSPECIFIED(IpFamilyV4))
      [] tag = V6 -> IpAddr_from(IpFamilyV6, IpFamilyAddr_UNSPECIFIED(IpFamilyV6))

\* impl AsRef<IpFamily> for IpAddr
AsRef_IpAddr(x) ==
    CASE x.variant = "V4" -> V4
      [] x.variant = "V6" -> V6

Mut_AsRef_SocketAddr(x) == V4

\* impl AsRef<IpFamily> for SocketAddr
AsRef_SocketAddr(x) ==
    CASE x.variant = "V4" -> V4
      [] x.variant = "V6" -> V6

\* T: AsRef<IpFamily>, resolved by the static type of x
as_ref(x) ==
    CASE x.type = "IpAddr" -> AsRef_IpAddr(x)
      [] x.type = "SocketAddr" -> AsRef_SocketAddr(x)

\* impl<T: AsRef<IpFamily>> From<T> for IpFamily
IpFamily_from(x) == as_ref(x)

\* impl<T: AsRef<IpFamily>> IpFamilyExt for T: fn family(&self)
family(x) == as_ref(x)

Mut_Discriminant(tag) == IF tag = V4 THEN 1 ELSE 0

\* the discriminants of enum IpFamily, in declaration order
Discriminant(tag) == IF tag = V4 THEN 0 ELSE 1

\* #[derive(PartialEq, Eq, PartialOrd, Ord)]: compare the discriminants
IpFamily_lt(a, b) == Discriminant(a) < Discriminant(b)
IpFamily_eq(a, b) == Discriminant(a) = Discriminant(b)

----------------------------------------------------------------------------
(* FromStr for Ipv4Addr (the FromStr bound of IpFamilyAddr): the parser of *)
(* std::net, core::net::parser.                                            *)

DigitChars == <<"0", "1", "2", "3", "4", "5", "6", "7", "8", "9">>

\* char::to_digit(10), -1 for None
to_digit(c) ==
    IF \E d \in 0..9 : DigitChars[d + 1] = c
    THEN CHOOSE d \in 0..9 : DigitChars[d + 1] = c
    ELSE -1

None == [some |-> FALSE]

\* the digit loop of Parser::read_number with max_digits = Some(3)
RECURSIVE read_digits(_, _, _, _)
read_digits(s, pos, result, count) ==
    IF pos <= Len(s) /\ to_digit(s[pos]) >= 0
    THEN IF count + 1 > 3
         THEN None
         ELSE read_digits(s, pos + 1, result * 10 + to_digit(s[pos]), count + 1)
    ELSE [some |-> TRUE, result |-> result, count |-> count, pos |-> pos]

Mut_read_number(s, pos) ==
    LET r == read_digits(s, pos, 0, 0)
    IN  IF ~r.some \/ r.count = 0
        THEN None
        ELSE [some |-> TRUE, val |-> r.result % 256, pos |-> r.pos]

\* Parser::read_number::<u8>(10, Some(3), false)
read_number(s, pos) ==
    LET has_leading_zero == pos <= Len(s) /\ s[pos] = "0"
        r == read_digits(s, pos, 0, 0)
    IN  IF ~r.some THEN None
        ELSE IF r.count = 0 THEN None
        ELSE IF has_leading_zero /\ r.count > 1 THEN None
        ELSE IF r.result > 255 THEN None
        ELSE [some |-> TRUE, val |-> r.result, pos |-> r.pos]

\* Parser::read_ipv4_addr: four numbers, read_separator('.', i, ..)
RECURSIVE read_groups(_, _, _, _)
read_groups(s, pos, i, groups) ==
    IF i = 4
    THEN [some |-> TRUE, val |-> groups, pos |-> pos]
    ELSE IF i > 0 /\ ~(pos <= Len(s) /\ s[pos] = ".")
    THEN None
    ELSE LET n == read_number(s, IF i > 0 THEN pos + 1 ELSE pos)
         IN  IF ~n.some THEN None
             ELSE read_groups(s, n.pos, i + 1, Append(groups, n.val))

Ok(v) == [kind |-> "Ok", val |-> v]
Err(e) == [kind |-> "Err", err |-> e]

\* <Ipv4Addr as FromStr>::from_str: Ipv4Addr::parse_ascii, Parser::parse_with
from_str(s) ==
    IF Len(s) > 15
    THEN Err("AddrParseError")
    ELSE LET r == read_groups(s, 1, 0, <<>>)
         IN  IF r.some /\ r.pos = Len(s) + 1
             THEN Ok(FromBytes(IpFamilyV4, r.val))
             ELSE Err("AddrParseError")

----------------------------------------------------------------------------
(* The inputs of the model.                                                *)

\* 127.0.0.1, 0.0.0.0, 10.0.0.1, 224.0.0.1, 255.255.255.255, 10.0.0.2
IpListV4 == <<IpFamilyAddr_LOCALHOST(IpFamilyV4), IpFamilyAddr_UNSPECIFIED(IpFamilyV4),
              <<2560, 1>>, <<57344, 1>>, <<65535, 65535>>, <<2560, 2>>>>

\* ::1, ::, 2001:db8::1, ff02::1, fe80::1, ::ffff:127.0.0.1
IpListV6 == <<IpFamilyAddr_LOCALHOST(IpFamilyV6), IpFamilyAddr_UNSPECIFIED(IpFamilyV6),
              <<8193, 3512, 0, 0, 0, 0, 0, 1>>, <<65282, 0, 0, 0, 0, 0, 0, 1>>,
              <<65152, 0, 0, 0, 0, 0, 0, 1>>, <<0, 0, 0, 0, 0, 65535, 32512, 1>>>>

Ips(M) == IF M = IpFamilyV4 THEN Prefix(IpListV4, MaxIps) ELSE Prefix(IpListV6, MaxIps)

\* byte sequences of length BYTES(M): every byte of a v4 sequence varies; of
\* a v6 sequence bytes 1, 2, 15 and 16 vary and the other twelve share a value
ByteSeqs(M) ==
    IF M = IpFamilyV4
    THEN [1..IPV4_ADDR_BYTES -> Bytes]
    ELSE {[i \in 1..IPV6_ADDR_BYTES |->
             CASE i = 1 -> a [] i = 2 -> b [] i = 15 -> c [] i = 16 -> d [] OTHER -> e] :
          a \in Bytes, b \in Bytes, c \in Bytes, d \in Bytes, e \in Bytes}

\* Raw integers: the first and the last limb vary, the others are 0 or 0xffff
Raws(M) ==
    {[j \in 1..Limbs(M) |-> CASE j = 1 -> x [] j = Limbs(M) -> y [] OTHER -> z] :
     x \in {hi * 256 + lo : hi \in Bytes, lo \in Bytes},
     y \in {hi * 256 + lo : hi \in Bytes, lo \in Bytes},
     z \in {0, 65535}}

\* the decimal text of a number (Display for integers)
RECURSIVE ToDecimal(_)
ToDecimal(n) ==
    IF n < 10 THEN <<DigitChars[n + 1]>>
    ELSE Append(ToDecimal(n \div 10), DigitChars[(n % 10) + 1])

\* the components joined by '.'
RECURSIVE Dotted(_)
Dotted(nums) ==
    IF Len(nums) = 0 THEN <<>>
    ELSE IF Len(nums) = 1 THEN ToDecimal(nums[1])
    ELSE ToDecimal(nums[1]) \o <<".">> \o Dotted(Tail(nums))

\* texts that are no dotted quad of canonical decimal numbers
BadTexts ==
    {Dotted(n) : n \in [1..3 -> Nums]}
    \cup {<<"0">> \o Dotted(n) : n \in [1..4 -> {1, 0, 255}]}
    \cup {Dotted(n) \o <<".">> : n \in [1..4 -> {1, 0, 255}]}
    \cup {Dotted(n) : n \in [1..5 -> {1, 0}]}
    \cup {<<>>, <<"1", ".", ".", "1", ".", "1">>, <<"1", ".", "1", ".", "1", ".", "a">>,
          <<" ", "1", ".", "1", ".", "1", ".", "1">>, <<":", ":", "1">>,
          <<"1", ".", "1", ".", "1", ".", "1", ":", "8", "0">>}

----------------------------------------------------------------------------
(* The state machine: a caller instantiated with the marker F that owns    *)
(* one socket address and uses the IpFamily accessors.                     *)

NoSock == [none |-> TRUE]
Some(v) == [some |-> TRUE, val |-> v]
NoGot == [op |-> "none"]
NoPeer == [op |-> "none"]
NoRes == [kind |-> "none"]
NoInput == [op |-> "none"]

Init ==
    /\ F \in AnyIpFamilyImpls
    /\ sock = NoSock
    /\ lastOp = "none"
    /\ lastIp = None
    /\ lastPort = None
    /\ got = NoGot
    /\ peer = NoPeer
    /\ res = NoRes
    /\ input = NoInput

\* let mut sock = <F::SocketAddr as IpFamilySocketAddr>::new(a, p)
New(a, p) ==
    /\ sock' = new(F, a, p)
    /\ lastOp' = "new"
    /\ lastIp' = Some(a)
    /\ lastPort' = Some(p)
    /\ got' = NoGot
    /\ UNCHANGED <<F, peer, res, input>>

\* sock.set_ip(a)
SetIp(a) ==
    /\ sock # NoSock
    /\ sock' = set_ip(F, sock, a)
    /\ lastOp' = "set_ip"
    /\ lastIp' = Some(a)
    /\ got' = NoGot
    /\ UNCHANGED <<F, lastPort, peer, res, input>>

\* sock.set_port(p)
SetPort(p) ==
    /\ sock # NoSock
    /\ sock' = set_port(F, sock, p)
    /\ lastOp' = "set_port"
    /\ lastPort' = Some(p)
    /\ got' = NoGot
    /\ UNCHANGED <<F, lastIp, peer, res, input>>

\* sock.ip()
GetIp ==
    /\ sock # NoSock
    /\ got' = [op |-> "ip", val |-> ip(F, sock)]
    /\ UNCHANGED <<F, sock, lastOp, lastIp, lastPort, peer, res, input>>

\* sock.port()
GetPort ==
    /\ sock # NoSock
    /\ got' = [op |-> "port", val |-> port(F, sock)]
    /\ UNCHANGED <<F, sock, lastOp, lastIp, lastPort, peer, res, input>>

\* SocketAddr::from(sock).family()
SockFamily ==
    /\ sock # NoSock
    /\ got' = [op |-> "sock.family", val |-> family(SocketAddr_from(F, sock))]
    /\ UNCHANGED <<F, sock, lastOp, lastIp, lastPort, peer, res, input>>

\* IpAddr::from(sock.ip()).family()
IpFamilyOfSock ==
    /\ sock # NoSock
    /\ got' = [op |-> "ip.family", val |-> family(IpAddr_from(F, ip(F, sock)))]
    /\ UNCHANGED <<F, sock, lastOp, lastIp, lastPort, peer, res, input>>

\* let peer = tag.localhost()
Localhost(tag) ==
    /\ peer' = [op |-> "localhost", tag |-> tag, val |-> localhost(tag)]
    /\ got' = NoGot
    /\ UNCHANGED <<F, sock, lastOp, lastIp, lastPort, res, input>>

\* let peer = tag.unspecified()
Unspecified(tag) ==
    /\ peer' = [op |-> "unspecified", tag |-> tag, val |-> unspecified(tag)]
    /\ got' = NoGot
    /\ UNCHANGED <<F, sock, lastOp, lastIp, lastPort, res, input>>

\* peer.family()
PeerFamily ==
    /\ peer # NoPeer
    /\ got' = [op |-> "peer.family", val |-> family(peer.val)]
    /\ UNCHANGED <<F, sock, lastOp, lastIp, lastPort, peer, res, input>>

\* IpFamily::from(peer)
PeerIntoFamily ==
    /\ peer # NoPeer
    /\ got' = [op |-> "peer.into", val |-> IpFamily_from(peer.val)]
    /\ UNCHANGED <<F, sock, lastOp, lastIp, lastPort, peer, res, input>>

Next ==
    \/ \E a \in Ips(F), p \in Ports : New(a, p)
    \/ \E a \in Ips(F) : SetIp(a)
    \/ \E p \in Ports : SetPort(p)
    \/ GetIp
    \/ GetPort
    \/ SockFamily
    \/ IpFamilyOfSock
    \/ \E tag \in IpFamily : Localhost(tag)
    \/ \E tag \in IpFamily : Unspecified(tag)
    \/ PeerFamily
    \/ PeerIntoFamily

Spec == Init /\ [][Next]_vars

----------------------------------------------------------------------------
(* The state machine of the address operations: a caller instantiated with *)
(* the marker F that constructs one F::Addr from an input and queries it.  *)

\* F::Addr::from(b), b: Bytes
AddrFromBytes ==
    /\ res = NoRes
    /\ \E b \in ByteSeqs(F) :
        /\ res' = Ok(FromBytes(F, b))
        /\ input' = [op |-> "from_bytes", bytes |-> b]
        /\ got' = NoGot
        /\ UNCHANGED <<F, sock, lastOp, lastIp, lastPort, peer>>

\* F::Addr::from(r), r: Raw
AddrFromRaw ==
    /\ res = NoRes
    /\ \E r \in Raws(F) :
        /\ res' = Ok(FromRaw(F, r))
        /\ input' = [op |-> "from_raw", raw |-> r]
        /\ got' = NoGot
        /\ UNCHANGED <<F, sock, lastOp, lastIp, lastPort, peer>>

\* format!("{}.{}.{}.{}", n[1], n[2], n[3], n[4]).parse::<Ipv4Addr>()
AddrFromQuad ==
    /\ F = IpFamilyV4
    /\ res = NoRes
    /\ \E n \in [1..4 -> Nums] :
        /\ res' = from_str(Dotted(n))
        /\ input' = [op |-> "from_str", shape |-> "quad", nums |-> n, text |-> Dotted(n)]
        /\ got' = NoGot
        /\ UNCHANGED <<F, sock, lastOp, lastIp, lastPort, peer>>

\* t.parse::<Ipv4Addr>()
AddrFromText ==
    /\ F = IpFamilyV4
    /\ res = NoRes
    /\ \E t \in BadTexts :
        /\ res' = from_str(t)
        /\ input' = [op |-> "from_str", shape |-> "other", nums |-> <<>>, text |-> t]
        /\ got' = NoGot
        /\ UNCHANGED <<F, sock, lastOp, lastIp, lastPort, peer>>

\* F::Addr::from(addr.octets())
Rebuild ==
    /\ res.kind = "Ok"
    /\ res' = Ok(FromBytes(F, octets(F, res.val)))
    /\ input' = [op |-> "rebuild", from |-> res.val]
    /\ got' = NoGot
    /\ UNCHANGED <<F, sock, lastOp, lastIp, lastPort, peer>>

\* addr.octets()
Octets ==
    /\ res.kind = "Ok"
    /\ got' = [op |-> "octets", val |-> octets(F, res.val)]
    /\ UNCHANGED <<F, sock, lastOp, lastIp, lastPort, peer, res, input>>

\* (addr.is_unspecified(), addr.is_loopback(), addr.is_multicast())
Classify ==
    /\ res.kind = "Ok"
    /\ got' = [op |-> "classify",
               val |-> [unspecified |-> is_unspecified(F, res.val),
                        loopback |-> is_loopback(F, res.val),
                        multicast |-> is_multicast(F, res.val)]]
    /\ UNCHANGED <<F, sock, lastOp, lastIp, lastPort, peer, res, input>>

\* IpAddr::from(addr).family()
AddrFamily ==
    /\ res.kind = "Ok"
    /\ got' = [op |-> "addr.family", val |-> family(IpAddr_from(F, res.val))]
    /\ UNCHANGED <<F, sock, lastOp, lastIp, lastPort, peer, res, input>>

NextAddr ==
    \/ AddrFromBytes
    \/ AddrFromRaw
    \/ AddrFromQuad
    \/ AddrFromText
    \/ Rebuild
    \/ Octets
    \/ Classify
    \/ AddrFamily

SpecAddr == Init /\ [][NextAddr]_vars

----------------------------------------------------------------------------
(* The claims.  C1..C6 and C10 are checked under Spec, C7..C9 under        *)
(* SpecAddr.                                                               *)

\* C1: for every tag T, the family extracted from T.localhost() and from
\* T.unspecified() is T, by family() and by IpFamily::from alike.
C1_AccessorKeepsFamily ==
    /\ peer # NoPeer =>
        /\ family(peer.val) = peer.tag
        /\ IpFamily_from(peer.val) = peer.tag
    /\ got.op \in {"peer.family", "peer.into"} => got.val = peer.tag

C1_Witness ==
    /\ peer.op = "unspecified"
    /\ peer.tag = V6
    /\ got.op = "peer.family"
    /\ got.val = V6

\* C2: after new and any sequence of set_ip and set_port, the family of the
\* socket address (as a SocketAddr) equals the family of its ip() (as an
\* IpAddr), and it is the family of the marker the value was built for.
C2_SockFamilyIsIpFamily ==
    /\ sock # NoSock =>
        /\ family(SocketAddr_from(F, sock)) = family(IpAddr_from(F, ip(F, sock)))
        /\ family(SocketAddr_from(F, sock)) = AnyIpFamily_FAMILY(F)
    /\ got.op = "sock.family" => got.val = family(IpAddr_from(F, ip(F, sock)))
    /\ got.op = "ip.family" => got.val = family(SocketAddr_from(F, sock))

C2_Witness ==
    /\ F = IpFamilyV6
    /\ lastOp = "set_ip"
    /\ got.op = "sock.family"
    /\ got.val = V6

\* C3: a v6 socket address built by the contract's new has flow label 0 and
\* scope id 0, and keeps them through ip, set_ip, port and set_port.
C3_FlowAndScopeStayZero ==
    (F = IpFamilyV6 /\ sock # NoSock) => (sock.flowinfo = 0 /\ sock.scope_id = 0)

C3_Witness ==
    /\ F = IpFamilyV6
    /\ lastOp = "set_port"
    /\ sock = [ip |-> IpFamilyAddr_LOCALHOST(IpFamilyV6), port |-> 8080,
               flowinfo |-> 0, scope_id |-> 0]

\* C4: the association is closed and one to one: exactly the two markers
\* implement AnyIpFamily; the Family of a marker's Addr and of its SocketAddr
\* is the marker; FAMILY is the marker's tag; no two markers share an Addr, a
\* SocketAddr or a FAMILY; the address and socket-address implementors are
\* exactly the markers' associated types, and every implementor is Sealed.
C4_ClosedOneToOne ==
    /\ AnyIpFamilyImpls = {IpFamilyV4, IpFamilyV6}
    /\ F \in AnyIpFamilyImpls
    /\ \A M \in AnyIpFamilyImpls :
        /\ IpFamilyAddr_Family(AnyIpFamily_Addr(M)) = M
        /\ IpFamilySocketAddr_Family(AnyIpFamily_SocketAddr(M)) = M
        /\ AnyIpFamily_FAMILY(M) = (IF M = IpFamilyV4 THEN V4 ELSE V6)
    /\ \A M \in AnyIpFamilyImpls, N \in AnyIpFamilyImpls :
        M # N =>
            /\ AnyIpFamily_Addr(M) # AnyIpFamily_Addr(N)
            /\ AnyIpFamily_SocketAddr(M) # AnyIpFamily_SocketAddr(N)
            /\ AnyIpFamily_FAMILY(M) # AnyIpFamily_FAMILY(N)
    /\ IpFamilyAddrImpls = {AnyIpFamily_Addr(M) : M \in AnyIpFamilyImpls}
    /\ IpFamilySocketAddrImpls = {AnyIpFamily_SocketAddr(M) : M \in AnyIpFamilyImpls}
    /\ \A T \in Types \ Sealed :
        T \notin AnyIpFamilyImpls \cup IpFamilyAddrImpls \cup IpFamilySocketAddrImpls
    /\ sock # NoSock =>
        /\ SocketAddr_from(F, sock).variant = AnyIpFamily_FAMILY(F)
        /\ IpAddr_from(F, ip(F, sock)).variant = AnyIpFamily_FAMILY(F)

C4_Witness ==
    /\ F = IpFamilyV6
    /\ sock # NoSock
    /\ got.op = "ip.family"
    /\ got.val = AnyIpFamily_FAMILY(IpFamilyV6)

\* C5: for each marker M the generic form of M::Addr::LOCALHOST is
\* M::FAMILY.localhost() (127.0.0.1, ::1) and the generic form of
\* M::Addr::UNSPECIFIED is M::FAMILY.unspecified() (0.0.0.0, ::).
C5_ConstantsAgree ==
    /\ \A M \in AnyIpFamilyImpls :
        /\ IpAddr_from(M, IpFamilyAddr_LOCALHOST(M)) = localhost(AnyIpFamily_FAMILY(M))
        /\ IpAddr_from(M, IpFamilyAddr_UNSPECIFIED(M)) = unspecified(AnyIpFamily_FAMILY(M))
    /\ octets(IpFamilyV4, localhost(V4).inner) = <<127, 0, 0, 1>>
    /\ octets(IpFamilyV6, localhost(V6).inner)
         = <<0, 0, 0, 0, 0, 0, 0, 0, 0, 0, 0, 0, 0, 0, 0, 1>>
    /\ octets(IpFamilyV4, unspecified(V4).inner) = <<0, 0, 0, 0>>
    /\ octets(IpFamilyV6, unspecified(V6).inner)
         = <<0, 0, 0, 0, 0, 0, 0, 0, 0, 0, 0, 0, 0, 0, 0, 0>>
    /\ (peer.op = "localhost" /\ peer.tag = AnyIpFamily_FAMILY(F)) =>
        peer.val = IpAddr_from(F, IpFamilyAddr_LOCALHOST(F))
    /\ (peer.op = "unspecified" /\ peer.tag = AnyIpFamily_FAMILY(F)) =>
        peer.val = IpAddr_from(F, IpFamilyAddr_UNSPECIFIED(F))

C5_Witness ==
    /\ F = IpFamilyV4
    /\ peer.op = "unspecified"
    /\ peer.tag = AnyIpFamily_FAMILY(F)
    /\ peer.val = IpAddr_from(F, IpFamilyAddr_UNSPECIFIED(F))

\* the generic values of a state
GenericValues ==
    (IF sock # NoSock
     THEN {SocketAddr_from(F, sock), IpAddr_from(F, ip(F, sock))}
     ELSE {})
    \cup (IF peer # NoPeer THEN {peer.val} ELSE {})

\* C6: the order of IpFamily is a strict total order with V4 < V6, and the
\* family of any v4 value is less than the family of any v6 value, whatever
\* their address bits and ports.
C6_V4BeforeV6 ==
    /\ IpFamily_lt(V4, V6)
    /\ \A a \in IpFamily : ~IpFamily_lt(a, a)
    /\ \A a \in IpFamily, b \in IpFamily :
        /\ IpFamily_lt(a, b) \/ IpFamily_eq(a, b) \/ IpFamily_lt(b, a)
        /\ ~(IpFamily_lt(a, b) /\ IpFamily_lt(b, a))
        /\ IpFamily_eq(a, b) <=> a = b
    /\ \A a \in IpFamily, b \in IpFamily, c \in IpFamily :
        (IpFamily_lt(a, b) /\ IpFamily_lt(b, c)) => IpFamily_lt(a, c)
    /\ \A x \in GenericValues, y \in GenericValues :
        (x.variant = "V4" /\ y.variant = "V6") => IpFamily_lt(family(x), family(y))

C6_Witness ==
    /\ F = IpFamilyV4
    /\ sock # NoSock
    /\ sock.port = 65535
    /\ peer.op = "unspecified"
    /\ peer.tag = V6
    /\ IpFamily_lt(family(SocketAddr_from(F, sock)), family(peer.val))

\* C10: after new(a, p) and any sequence of set_ip and set_port, ip() is the
\* address of the latest set_ip (a if none) and port() the port of the latest
\* set_port (p if none), for every 16-bit port, 0 included; so set_ip leaves
\* the port and set_port the address unchanged.
C10_LastWriteWins ==
    /\ sock # NoSock =>
        /\ Some(ip(F, sock)) = lastIp
        /\ Some(port(F, sock)) = lastPort
        /\ port(F, sock) \in 0..65535
    /\ got.op = "ip" => Some(got.val) = lastIp
    /\ got.op = "port" => Some(got.val) = lastPort

C10_Witness ==
    /\ lastOp = "set_ip"
    /\ lastIp = Some(IpFamilyAddr_LOCALHOST(F))
    /\ lastPort = Some(0)
    /\ got.op = "port"
    /\ got.val = 0

\* C7: for every address A of either family, the address constructed from
\* A.octets() equals A, and octets() has exactly BYTES elements: 4 for v4,
\* 16 for v6.
C7_OctetsRoundTrip ==
    /\ res.kind = "Ok" =>
        /\ FromBytes(F, octets(F, res.val)) = res.val
        /\ Len(octets(F, res.val)) = BYTES(F)
        /\ BYTES(F) = (IF F = IpFamilyV4 THEN 4 ELSE 16)
    /\ input.op = "rebuild" => res = Ok(input.from)
    /\ got.op = "octets" =>
        /\ Len(got.val) = BYTES(F)
        /\ \A i \in 1..Len(got.val) : got.val[i] \in 0..255

C7_Witness ==
    /\ F = IpFamilyV6
    /\ input.op = "rebuild"
    /\ res = Ok(input.from)
    /\ octets(F, res.val) = <<255, 1, 0, 0, 0, 0, 0, 0, 0, 0, 0, 0, 0, 0, 127, 1>>

ExactlyOne(c) ==
    \/ c.unspecified /\ ~c.loopback /\ ~c.multicast
    \/ ~c.unspecified /\ c.loopback /\ ~c.multicast
    \/ ~c.unspecified /\ ~c.loopback /\ c.multicast

AtMostOne(c) ==
    /\ ~(c.unspecified /\ c.loopback)
    /\ ~(c.unspecified /\ c.multicast)
    /\ ~(c.loopback /\ c.multicast)

\* what the claim says of 0.0.0.0 and of 127.0.0.1
ClassifyExamples ==
    (got.op = "classify" /\ F = IpFamilyV4) =>
        /\ octets(F, res.val) = <<0, 0, 0, 0>> =>
            (got.val.unspecified /\ ~got.val.loopback)
        /\ octets(F, res.val) = <<127, 0, 0, 1>> => got.val.loopback

\* C8 as stated: for every address exactly one of is_unspecified,
\* is_loopback and is_multicast holds.
C8_ExactlyOnePredicate ==
    /\ got.op = "classify" => ExactlyOne(got.val)
    /\ ClassifyExamples

\* C8 as amended: for every address at most one of is_unspecified,
\* is_loopback and is_multicast holds (none for an ordinary unicast address);
\* 0.0.0.0 is unspecified and not loopback, 127.0.0.1 is loopback.
C8_AtMostOnePredicate ==
    /\ got.op = "classify" => AtMostOne(got.val)
    /\ ClassifyExamples

C8_Witness ==
    /\ F = IpFamilyV4
    /\ got.op = "classify"
    /\ octets(F, res.val) = <<127, 0, 0, 1>>
    /\ got.val = [unspecified |-> FALSE, loopback |-> TRUE, multicast |-> FALSE]

\* C9: only parsing fails, and only with the parse error.  A dotted quad
\* with a component above 255 gives the error and no address; one whose
\* components are all in 0..255 gives the address whose octets are the
\* components in order.  Construction from an integer or from bytes, octets,
\* the three predicates and the family extraction return a value.
C9_OnlyParsingFails ==
    /\ res.kind \in {"none", "Ok", "Err"}
    /\ res.kind = "Err" => (res = Err("AddrParseError") /\ input.op = "from_str")
    /\ input.op \in {"from_bytes", "from_raw", "rebuild"} =>
        (res.kind = "Ok" /\ res.val \in [1..Limbs(F) -> 0..65535])
    /\ (input.op = "from_str" /\ input.shape = "quad") =>
        IF \A i \in 1..4 : input.nums[i] \in 0..255
        THEN res.kind = "Ok" /\ octets(F, res.val) = input.nums
        ELSE res = Err("AddrParseError")
    /\ (input.op = "from_str" /\ input.shape = "other") => res = Err("AddrParseError")
    /\ got.op = "octets" => got.val \in [1..BYTES(F) -> 0..255]
    /\ got.op = "classify" =>
        got.val \in [unspecified : BOOLEAN, loopback : BOOLEAN, multicast : BOOLEAN]
    /\ got.op = "addr.family" => got.val \in IpFamily

C9_Witness ==
    /\ input.op = "from_str"
    /\ input.text = <<"2", "5", "6", ".", "0", ".", "0", ".", "1">>
    /\ res = Err("AddrParseError")

\* the valid scenario of C9: "192.168.1.1" parses to the octets [192,168,1,1]
C9_ValidScenario ==
    /\ input.op = "from_str"
    /\ input.text = <<"1", "9", "2", ".", "1", "6", "8", ".", "1", ".", "1">>
    /\ got.op = "octets"
    /\ got.val = <<192, 168, 1, 1>>

====
